---- MODULE Spec2Model ----
(***************************************************************************)
(* Verification model of the FuckBaggr utility scripts:                    *)
(*   - find_sum.py               the reconciliation (subset-sum) search    *)
(*   - parse_cash.py             the cash-movement table locator           *)
(*   - parse_ibkr.py             the transaction table locator             *)
(*   - scripts/yfinance_server.py the valuation-ratio HTTP proxy           *)
(* Amounts are held in whole cents (0.05 currency units = 5).  Texts are   *)
(* sequences of tokens; a keyword is one token, " " is white space.        *)
(***************************************************************************)
EXTENDS Integers, Sequences, FiniteSets, TLC

VARIABLES
    \* find_sum.py
    all_vals,   \* the pool: deposits + transfers + divs, in cents
    target,     \* the target sum, in cents
    r,          \* the subset size of the outer loop
    c,          \* the current combination, as increasing indices into all_vals
    matches,    \* the MATCH lines printed so far: [sum, c]
    spc,        \* "size", "comb", "done" (Search done. printed), "crashed"
    \* parse_cash.py, parse_ibkr.py
    script,     \* which script runs: "parse_cash" or "parse_ibkr"
    file,       \* the statement file: "ok", "missing" or "undecodable"
    htm,        \* the tables of the statement file, in document order
    tables,     \* soup.find_all('table'), once the file is parsed
    ti,         \* position of the for loop in tables (next table to handle)
    summarized, \* the tables handed to summarize_table (parse_ibkr.py)
    out,        \* the lines printed so far: [t, kind, cells]
    lpc,        \* "open", "parse", "loop", "done" (normal end), "aborted"
    \* scripts/yfinance_server.py
    req,        \* the GET request: [path, tickers, q]
    hpc,        \* where the handler stands, "returned" or "raised" at its end
    resp,       \* the response being sent: [status, body]
    intry,      \* inside the try block of _handle_search
    tickers,    \* the symbols of _handle_pe
    ki,         \* position of the for loop in tickers
    result,     \* the result dict of _handle_pe
    lookups,    \* the upstream lookups made: [t, outcome]
    searches,   \* the number of upstream search calls made
    statuses,   \* the status of each call of _set_headers
    body,       \* the bodies written to wfile
    conn        \* the client connection: "open" or "broken"

searchVars == <<all_vals, target, r, c, matches, spc>>
locatorVars == <<script, file, htm, tables, ti, summarized, out, lpc>>
proxyVars == <<req, hpc, resp, intry, tickers, ki, result, lookups, searches,
               statuses, body, conn>>
vars == <<all_vals, target, r, c, matches, spc,
          script, file, htm, tables, ti, summarized, out, lpc,
          req, hpc, resp, intry, tickers, ki, result, lookups, searches,
          statuses, body, conn>>

(***************************************************************************)
(* Bounds of the model                                                     *)
(***************************************************************************)
MaxPool == 4
MaxTables == 2
MaxDocRows == 2
MaxRaw == 3

\* upper bound on sequences of length 0..n over S
SeqUpTo(S, n) == UNION {[1..k -> S] : k \in 0..n}

(***************************************************************************)
(* find_sum.py                                                             *)
(***************************************************************************)
\* 0.05, the absolute tolerance of the comparison, in cents
Tol == 5

Abs(x) == IF x < 0 THEN -x ELSE x

RECURSIVE sum(_)
sum(s) == IF s = <<>> THEN 0 ELSE Head(s) + sum(Tail(s))

\* the tuple itertools.combinations yields for the index tuple idx
Pick(vals, idx) == [k \in 1..Len(idx) |-> vals[idx[k]]]

\* itertools.combinations: the first index tuple, range(r)
FirstComb(size) == [k \in 1..size |-> k]

\* itertools.combinations: some index is not yet at its maximum i + n - r
HasNext(idx, n) == \E i \in 1..Len(idx) : idx[i] # i + n - Len(idx)

\* itertools.combinations: bump the rightmost index not at its maximum and
\* reset the indices to its right
NextComb(idx, n) ==
    LET k == Len(idx)
        i == CHOOSE i \in 1..k : /\ idx[i] # i + n - k
                                 /\ \A j \in (i+1)..k : idx[j] = j + n - k
    IN  [j \in 1..k |-> IF j < i THEN idx[j] ELSE idx[i] + 1 + (j - i)]

\* abs(sum(c) - target) < 0.05
NoAbsTolerance(s, t) == s - t < Tol
InvertedTolerance(s, t) == Abs(s - t) > Tol
InTolerance(s, t) == Abs(s - t) < Tol

\* range(len(all_vals)-2, len(all_vals)+1): first and last subset size
FirstSizeMinusOne(n) == n - 1
FirstSize(n) == n - 2
LastSize(n) == n

\* the script's own data, in cents
deposits == <<500, 3000, 70000, 49998, 4085, 48993, 50000, 50000, 100000,
              30200, 50000, 8300, 500, 1000, 50062, 200, 150334, 10776, 2137>>
transfers == <<37248, 594150, 147920, 112562, 102788>>
divs == <<544, 816>>
script_target == 1680966

\* the pools and targets of the bounded search
PoolVals == {-3, 4, 5, 100}
Targets == {9, 104}

\* the other programs are not running
LocatorIdle ==
    /\ script = "none" /\ file = "ok" /\ htm = <<>> /\ tables = <<>>
    /\ ti = 0 /\ summarized = {} /\ out = <<>> /\ lpc = "idle"

NoResp == [status |-> 0, body |-> [kind |-> "none", data |-> <<>>]]
\* a query parameter: given or not, and its text
NoParam == [given |-> FALSE, text |-> <<>>]
NoReq == [path |-> "", tickers |-> NoParam, q |-> NoParam]
ProxyIdle ==
    /\ req = NoReq /\ hpc = "idle" /\ resp = NoResp /\ intry = FALSE
    /\ tickers = <<>> /\ ki = 0 /\ result = <<>> /\ lookups = <<>>
    /\ searches = 0 /\ statuses = <<>> /\ body = <<>> /\ conn = "open"

SearchStart(vals, t) ==
    /\ LocatorIdle
    /\ ProxyIdle
    /\ all_vals = vals
    /\ target = t
    /\ r = FirstSize(Len(vals))
    /\ c = <<>>
    /\ matches = <<>>
    /\ spc = "size"

SearchInit == \E vals \in SeqUpTo(PoolVals, MaxPool), t \in Targets : SearchStart(vals, t)

ScriptInit == SearchStart(deposits \o transfers \o divs, script_target)

\* for r in range(...): itertools.combinations(all_vals, r) is created;
\* a negative r raises ValueError, which nothing catches
EnterSize ==
    /\ spc = "size"
    /\ r <= LastSize(Len(all_vals))
    /\ IF r < 0
          THEN spc' = "crashed" /\ c' = c
          ELSE spc' = "comb" /\ c' = FirstComb(r)
    /\ UNCHANGED <<all_vals, target, r, matches>>
    /\ UNCHANGED <<locatorVars, proxyVars>>

\* one iteration of the inner loop: test the combination, print MATCH, and
\* advance the iterator (or leave the inner loop when it is exhausted)
CheckComb ==
    /\ spc = "comb"
    /\ LET tup == Pick(all_vals, c)
       IN  matches' = IF InTolerance(sum(tup), target)
                         THEN Append(matches, [sum |-> sum(tup), c |-> tup])
                         ELSE matches
    /\ IF HasNext(c, Len(all_vals))
          THEN c' = NextComb(c, Len(all_vals)) /\ UNCHANGED <<r, spc>>
          ELSE c' = <<>> /\ r' = r + 1 /\ spc' = "size"
    /\ UNCHANGED <<all_vals, target>>
    /\ UNCHANGED <<locatorVars, proxyVars>>

\* print("Search done.")
SearchDone ==
    /\ spc = "size"
    /\ r > LastSize(Len(all_vals))
    /\ spc' = "done"
    /\ UNCHANGED <<all_vals, target, r, c, matches>>
    /\ UNCHANGED <<locatorVars, proxyVars>>

SearchNext == EnterSize \/ CheckComb \/ SearchDone

SpecSearch == SearchInit /\ [][SearchNext]_vars
SpecScript == ScriptInit /\ [][SearchNext]_vars

(***************************************************************************)
(* Claims about find_sum.py                                                *)
(***************************************************************************)
\* the values at the positions I, in pool order
RECURSIVE Ascending(_)
Ascending(I) ==
    IF I = {} THEN <<>>
    ELSE LET m == CHOOSE x \in I : \A y \in I : x <= y
         IN  <<m>> \o Ascending(I \ {m})

SubsetTuple(I) == Pick(all_vals, Ascending(I))

Reported == {matches[k].c : k \in 1..Len(matches)}

\* C1: every subset printed on a MATCH line has a sum strictly less than
\* 0.05 away from the target, and the sum printed is the sum of that subset.
C1_MatchWithinTolerance ==
    \A k \in 1..Len(matches) :
        /\ matches[k].sum = sum(matches[k].c)
        /\ Abs(sum(matches[k].c) - target) < Tol

\* a MATCH line was printed for a subset 0.04 away from the target
C1_Witness ==
    \E k \in 1..Len(matches) : Abs(matches[k].sum - target) = Tol - 1

\* C2 (as claimed): on the script's own pool of 26 values and target
\* 16809.66 at least one MATCH line is printed before "Search done.".
C2_ScriptFindsMatch ==
    spc = "done" => \E k \in 1..Len(matches) : InTolerance(matches[k].sum, target)

\* C2 (amended): on the script's own pool and target no MATCH line is ever
\* printed; the whole pool sums to 16761.13, 48.53 below the target.
C2_ScriptFindsNothing ==
    /\ matches = <<>>
    /\ sum(all_vals) = script_target - 4853
    /\ spc # "crashed"

\* the script ran to "Search done." on its 26 values
C2_Witness ==
    spc = "done" /\ Len(all_vals) = 26 /\ r = 27 /\ matches = <<>>

\* C3 (as claimed): when the search is done, every subset of the pool, of
\* any size, whose sum is within the tolerance has been reported.
C3_FindsEverySubset ==
    spc = "done" =>
        \A I \in SUBSET (1..Len(all_vals)) :
            InTolerance(sum(SubsetTuple(I)), target) => SubsetTuple(I) \in Reported

\* C3 (amended): when the search is done the pool has at least two values,
\* every subset of N-2, N-1 or N of its values whose sum is within the
\* tolerance has been reported, and no smaller subset has; a pool of fewer
\* than two values ends in an uncaught ValueError with nothing reported.
C3_FindsEveryNearFullSubset ==
    LET n == Len(all_vals) IN
    /\ spc = "done" =>
          /\ n >= 2
          /\ \A I \in SUBSET (1..n) :
                (Cardinality(I) >= n - 2 /\ InTolerance(sum(SubsetTuple(I)), target))
                    => SubsetTuple(I) \in Reported
          /\ \A k \in 1..Len(matches) : Len(matches[k].c) >= n - 2
    /\ spc = "crashed" <=> (n < 2 /\ spc # "size")
    /\ spc = "crashed" => matches = <<>>

\* the search is done on four values, a subset of exactly N-2 of them was
\* reported, and a single value within the tolerance was left unreported
C3_Witness ==
    /\ spc = "done"
    /\ Len(all_vals) = 4
    /\ \E k \in 1..Len(matches) : Len(matches[k].c) = 2
    /\ \E i \in 1..4 : /\ InTolerance(all_vals[i], target)
                        /\ <<all_vals[i]>> \notin Reported

(***************************************************************************)
(* parse_cash.py and parse_ibkr.py                                         *)
(* A table is [pre, rows]: the text of the table outside its cells and its *)
(* <tr> rows; a row is a sequence of cells [tag, text].                    *)
(***************************************************************************)
Th(txt) == [tag |-> "th", text |-> txt]
Td(txt) == [tag |-> "td", text |-> txt]

RECURSIVE Concat(_)
Concat(ss) == IF ss = <<>> THEN <<>> ELSE Head(ss) \o Concat(Tail(ss))

\* row.get_text(), t.get_text(): all the text below the element
RowText(row) == Concat([k \in 1..Len(row) |-> row[k].text])
get_text(t) == t.pre \o Concat([k \in 1..Len(t.rows) |-> RowText(t.rows[k])])

\* str.strip(): leading and trailing white space removed
RECURSIVE LStrip(_)
LStrip(txt) == IF txt # <<>> /\ Head(txt) = " " THEN LStrip(Tail(txt)) ELSE txt
RECURSIVE RStrip(_)
RStrip(txt) ==
    IF txt # <<>> /\ txt[Len(txt)] = " " THEN RStrip(SubSeq(txt, 1, Len(txt) - 1)) ELSE txt
NoStrip(txt) == txt
Strip(txt) == RStrip(LStrip(txt))

\* 'kw' in text
Contains(txt, kw) == \E k \in 1..Len(txt) : txt[k] = kw
\* 'h' in headers (list membership)
Member(list, h) == \E k \in 1..Len(list) : list[k] = <<h>>

SelectCells(row, tags) == SelectSeq(row, LAMBDA cell : cell.tag \in tags)
\* [c.get_text(strip=True) for c in rows[0].find_all(['th', 'td'])]
Headers(row) ==
    LET cells == SelectCells(row, {"th", "td"})
    IN  [k \in 1..Len(cells) |-> Strip(cells[k].text)]
\* [td.get_text(strip=True) for td in r.find_all('td')]
Cells(row) ==
    LET cells == SelectCells(row, {"td"})
    IN  [k \in 1..Len(cells) |-> Strip(cells[k].text)]

Line(i, kind, cells) == [t |-> i, kind |-> kind, cells |-> cells]

\* an exception leaves the script: parse_ibkr.py wraps everything in
\* try/except Exception and prints it, the other scripts do not catch it
CaughtNowhere(sc) == FALSE
Caught(sc) == sc = "parse_ibkr"
Raised(sc, o) ==
    IF Caught(sc) THEN [lpc |-> "done", out |-> Append(o, Line(0, "error", <<>>))]
                  ELSE [lpc |-> "aborted", out |-> o]

\* if not rows: continue / return
NoRowsCheck(rows) == TRUE
HasRows(rows) == rows # <<>>

\* parse_cash.py line 12
CashKeyword(txt) ==
    Contains(txt, "Transfert électronique") \/ Contains(txt, "Déboursement")
\* parse_cash.py line 16
CashHeadersNoDescription(headers) == Member(headers, "Date") /\ Member(headers, "Montant")
CashHeaders(headers) ==
    Member(headers, "Date") /\ Member(headers, "Description") /\ Member(headers, "Montant")

\* parse_ibkr.py line 18 and line 20
IbkrSymbolTable(txt) ==
    /\ Contains(txt, "Symbole")
    /\ \/ Contains(txt, "Achat") \/ Contains(txt, "Vente")
       \/ Contains(txt, "Dépôts") \/ Contains(txt, "Date")
IbkrDateAmountNever(txt) == FALSE
IbkrDateAmount(txt) == Contains(txt, "Date") /\ Contains(txt, "Montant")

\* the lines printed for rows[from..to]; skipEmpty is "if cells:"
RowLines(i, rows, from, to, skipEmpty) ==
    LET rest == SubSeq(rows, from, IF to < Len(rows) THEN to ELSE Len(rows))
        lines == [k \in 1..Len(rest) |-> Line(i, "row", Cells(rest[k]))]
    IN  IF skipEmpty THEN SelectSeq(lines, LAMBDA l : l.cells # <<>>) ELSE lines

\* the documents of the bounded runs
PreTexts(sc) ==
    IF sc = "parse_cash" THEN {<<>>, <<"x", "Déboursement">>}
                         ELSE {<<>>, <<"Symbole", " ", "Vente">>}
RowPool(sc) ==
    IF sc = "parse_cash"
    THEN { <<Th(<<"Date">>), Th(<<"Description">>), Th(<<"Montant">>)>>,
           <<Td(<<" ", "Date", " ">>), Td(<<"Description">>), Th(<<"Montant", " ">>)>>,
           <<Th(<<"Date", " ", "x">>), Th(<<"Description">>), Th(<<"Montant">>)>>,
           <<Th(<<"Date">>), Th(<<"Montant">>)>>,
           <<Td(<<"x">>), Td(<<"Transfert électronique">>), Th(<<"x">>)>>,
           <<Td(<<" ", "x">>)>> }
    ELSE { <<Th(<<"Symbole">>), Th(<<"x">>)>>,
           <<Td(<<"Achat">>), Td(<<" ">>)>>,
           <<Th(<<"Date">>), Th(<<" ", "Montant">>)>>,
           <<Td(<<"Date", " ", "x">>), Td(<<"Montant">>)>>,
           <<Td(<<"Montant">>)>>,
           <<Th(<<"x">>)>> }

TablesUpTo(sc, n) == [pre : PreTexts(sc), rows : SeqUpTo(RowPool(sc), n)]

\* documents of at most m tables holding at most n rows in all
RECURSIVE DocsUpTo(_, _, _)
DocsUpTo(sc, m, n) ==
    IF m = 0 THEN {<<>>}
    ELSE {<<>>} \cup UNION { {<<t>> \o d : d \in DocsUpTo(sc, m - 1, n - Len(t.rows))}
                              : t \in TablesUpTo(sc, n) }

Scripts == {"parse_cash", "parse_ibkr"}

LocatorStart(sc, f, doc) ==
    /\ script = sc /\ file = f /\ htm = doc
    /\ tables = <<>> /\ ti = 0 /\ summarized = {} /\ out = <<>> /\ lpc = "open"

SearchIdle ==
    /\ all_vals = <<>> /\ target = 0 /\ r = 0 /\ c = <<>>
    /\ matches = <<>> /\ spc = "idle"

LocatorInit ==
    /\ SearchIdle
    /\ ProxyIdle
    /\ \E sc \in Scripts :
          \/ \E doc \in DocsUpTo(sc, MaxTables, MaxDocRows) : LocatorStart(sc, "ok", doc)
          \/ \E f \in {"missing", "undecodable"} : LocatorStart(sc, f, <<>>)

\* open(...) / codecs.open(...): a missing file raises
OpenFile ==
    /\ lpc = "open"
    /\ IF file = "missing"
          THEN lpc' = Raised(script, out).lpc /\ out' = Raised(script, out).out
          ELSE lpc' = "parse" /\ out' = out
    /\ UNCHANGED <<script, file, htm, tables, ti, summarized>>
    /\ UNCHANGED <<searchVars, proxyVars>>

\* BeautifulSoup(f, 'html.parser') reads and decodes the whole file, then
\* tables = soup.find_all('table')
ParseFile ==
    /\ lpc = "parse"
    /\ IF file = "undecodable"
          THEN /\ lpc' = Raised(script, out).lpc /\ out' = Raised(script, out).out
               /\ UNCHANGED <<tables, ti>>
          ELSE /\ lpc' = "loop" /\ out' = out
               /\ tables' = htm /\ ti' = 1
    /\ UNCHANGED <<script, file, htm, summarized>>
    /\ UNCHANGED <<searchVars, proxyVars>>

\* parse_cash.py: one iteration of "for t in tables"
CashTable ==
    /\ lpc = "loop" /\ script = "parse_cash"
    /\ ti <= Len(tables)
    /\ LET t == tables[ti]
           rows == t.rows
       IN  IF ~CashKeyword(get_text(t)) \/ ~HasRows(rows)
              THEN lpc' = lpc /\ out' = out /\ ti' = ti + 1
           ELSE IF rows = <<>>      \* rows[0]: IndexError
              THEN /\ lpc' = Raised(script, out).lpc
                   /\ out' = Raised(script, out).out /\ ti' = ti
           ELSE IF CashHeaders(Headers(rows[1]))
              THEN /\ out' = out \o <<Line(ti, "marker", <<>>)>>
                               \o RowLines(ti, rows, 2, Len(rows), FALSE)
                   /\ lpc' = lpc /\ ti' = ti + 1
           ELSE lpc' = lpc /\ out' = out /\ ti' = ti + 1
    /\ UNCHANGED <<script, file, htm, tables, summarized>>
    /\ UNCHANGED <<searchVars, proxyVars>>

\* summarize_table(t)
summarize_table(i, t, o) ==
    IF ~HasRows(t.rows) THEN [lpc |-> "loop", out |-> o]
    ELSE IF t.rows = <<>> THEN Raised("parse_ibkr", o)    \* rows[0]: IndexError
    ELSE [lpc |-> "loop",
          out |-> o \o <<Line(i, "headers", Headers(t.rows[1]))>>
                    \o RowLines(i, t.rows, 2, 4, TRUE)]

\* parse_ibkr.py: one iteration of "for t in tables"
IbkrTable ==
    /\ lpc = "loop" /\ script = "parse_ibkr"
    /\ ti <= Len(tables)
    /\ LET t == tables[ti]
           text == get_text(t)
       IN  IF IbkrSymbolTable(text) \/ IbkrDateAmount(text)
              THEN /\ summarized' = summarized \cup {ti}
                   /\ lpc' = summarize_table(ti, t, out).lpc
                   /\ out' = summarize_table(ti, t, out).out
                   /\ ti' = IF summarize_table(ti, t, out).lpc = "loop" THEN ti + 1 ELSE ti
              ELSE UNCHANGED <<summarized, lpc, out>> /\ ti' = ti + 1
    /\ UNCHANGED <<script, file, htm, tables>>
    /\ UNCHANGED <<searchVars, proxyVars>>

\* the loop is over: the script ends normally
LoopEnd ==
    /\ lpc = "loop"
    /\ ti > Len(tables)
    /\ lpc' = "done"
    /\ UNCHANGED <<script, file, htm, tables, ti, summarized, out>>
    /\ UNCHANGED <<searchVars, proxyVars>>

LocatorNext == OpenFile \/ ParseFile \/ CashTable \/ IbkrTable \/ LoopEnd

SpecLocator == LocatorInit /\ [][LocatorNext]_vars

(***************************************************************************)
(* Claims about parse_cash.py and parse_ibkr.py                            *)
(***************************************************************************)
\* the tables the for loop has handled
Handled == {i \in 1..Len(tables) : i < ti}
Printed(i, kind) == \E k \in 1..Len(out) : out[k].t = i /\ out[k].kind = kind
TableLines == {k \in 1..Len(out) : out[k].kind \in {"marker", "headers", "row"}}
FirstRowHas(t, h) == \E j \in 1..Len(t.rows[1]) : Strip(t.rows[1][j].text) = <<h>>
PaddedHeader == <<Td(<<" ", "Date", " ">>), Td(<<"Description">>), Th(<<"Montant", " ">>)>>

\* C4: parse_cash.py prints the CANDIDATE CASH TABLE marker for a table if
\* and only if the table has at least one row, its full text contains
\* 'Transfert électronique' or 'Déboursement', and the cell texts of its
\* first row include Date, Description and Montant.
C4_CashTableIff ==
    script = "parse_cash" =>
        \A i \in 1..Len(tables) :
            Printed(i, "marker") <=>
                /\ i \in Handled
                /\ Len(tables[i].rows) >= 1
                /\ \E k \in 1..Len(get_text(tables[i])) :
                       get_text(tables[i])[k] \in {"Transfert électronique", "Déboursement"}
                /\ \A h \in {"Date", "Description", "Montant"} : FirstRowHas(tables[i], h)

\* a table whose keyword stands in a body row and whose header cells need
\* stripping got the marker, and its body row was printed
C4_Witness ==
    /\ script = "parse_cash" /\ lpc = "done"
    /\ \E i \in Handled :
          /\ tables[i].pre = <<>>
          /\ tables[i].rows[1] = PaddedHeader
          /\ Printed(i, "marker") /\ Printed(i, "row")

\* C5: a table with zero rows yields no line and no error whatever its
\* text is, in both scripts, and the loop goes on to the next table.
C5_ZeroRowsSkipped ==
    [][(lpc = "loop" /\ ti <= Len(tables) /\ tables[ti].rows = <<>>)
          => (out' = out /\ lpc' = "loop" /\ ti' = ti + 1)]_vars

\* a table with zero rows and a keyword in its text was passed without a
\* line, and the table after it was handled and printed
C5_Witness ==
    /\ lpc = "done"
    /\ \E i \in Handled :
          /\ tables[i].rows = <<>> /\ tables[i].pre # <<>>
          /\ \A k \in 1..Len(out) : out[k].t # i
          /\ i + 1 \in Handled /\ \E k \in 1..Len(out) : out[k].t = i + 1

\* C8 (as claimed): in every script, a file that cannot be opened or
\* decoded ends the process in an error state with no table output.
C8_UnreadableFileAborts ==
    (file # "ok" /\ lpc \notin {"open", "parse"})
        => (lpc = "aborted" /\ TableLines = {})

\* C8 (amended): a file that cannot be opened or decoded never reaches the
\* table loop and yields no table output; parse_cash.py ends in an error
\* state (uncaught exception), parse_ibkr.py catches the exception, prints
\* it and ends normally.
C8_UnreadableFileNoTables ==
    file # "ok" =>
        /\ lpc # "loop" /\ tables = <<>> /\ TableLines = {}
        /\ lpc \notin {"open", "parse"} =>
              IF script = "parse_ibkr"
                 THEN lpc = "done" /\ out = <<Line(0, "error", <<>>)>>
                 ELSE lpc = "aborted" /\ out = <<>>

\* parse_ibkr.py ended normally on an undecodable file, the error printed
C8_Witness ==
    /\ script = "parse_ibkr" /\ file = "undecodable"
    /\ lpc = "done" /\ out = <<Line(0, "error", <<>>)>>

\* C9 (as claimed): parse_ibkr.py takes a table for a transaction table
\* exactly when (a) its text has Symbole and one of Achat, Vente, Dépôts,
\* Date, or (b) its header row has both Date and Montant.
C9_TransactionByHeader ==
    script = "parse_ibkr" =>
        \A i \in Handled :
            i \in summarized <=>
                \/ IbkrSymbolTable(get_text(tables[i]))
                \/ /\ tables[i].rows # <<>>
                   /\ Contains(RowText(tables[i].rows[1]), "Date")
                   /\ Contains(RowText(tables[i].rows[1]), "Montant")

\* C9 (amended): parse_ibkr.py takes a table for a transaction table
\* exactly when (a) holds or (b) its full text, header or not, has both
\* Date and Montant; it prints the header line of such a table when the
\* table has at least one row.
C9_TransactionByText ==
    script = "parse_ibkr" =>
        \A i \in 1..Len(tables) :
            /\ i \in summarized <=>
                  /\ i \in Handled
                  /\ LET text == get_text(tables[i]) IN
                     \/ /\ \E k \in 1..Len(text) : text[k] = "Symbole"
                        /\ \E k \in 1..Len(text) :
                               text[k] \in {"Achat", "Vente", "Dépôts", "Date"}
                     \/ /\ \E k \in 1..Len(text) : text[k] = "Date"
                        /\ \E k \in 1..Len(text) : text[k] = "Montant"
            /\ Printed(i, "headers") <=> (i \in summarized /\ tables[i].rows # <<>>)

\* a table with Date and Montant in a body row only, and no Symbole, was
\* summarized and its header line printed
C9_Witness ==
    /\ script = "parse_ibkr"
    /\ \E i \in Handled :
          /\ ~IbkrSymbolTable(get_text(tables[i]))
          /\ Len(tables[i].rows) = 2
          /\ ~Contains(RowText(tables[i].rows[1]), "Date")
          /\ ~Contains(RowText(tables[i].rows[1]), "Montant")
          /\ Contains(RowText(tables[i].rows[2]), "Date")
          /\ Contains(RowText(tables[i].rows[2]), "Montant")
          /\ i \in summarized /\ Printed(i, "headers")

(***************************************************************************)
(* scripts/yfinance_server.py                                              *)
(* A field of the upstream info is a number ("25.1", "7"), absent ("null") *)
(* or something that is no number ("Infinity").                            *)
(***************************************************************************)
\* qs.get(name, [""])[0]: parse_qs leaves out an absent or blank parameter
QsGet(param) == IF param.given THEN param.text ELSE <<>>

\* raw.split(",")
RECURSIVE Split(_)
Split(txt) ==
    IF ~Contains(txt, ",") THEN <<txt>>
    ELSE LET i == CHOOSE k \in 1..Len(txt) :
                      txt[k] = "," /\ \A j \in 1..(k - 1) : txt[j] # ","
         IN  <<SubSeq(txt, 1, i - 1)>> \o Split(SubSeq(txt, i + 1, Len(txt)))

\* [t.strip() for t in raw.split(",") if t.strip()]
PeTickers(rq) ==
    LET segs == Split(QsGet(rq.tickers))
    IN  SelectSeq([k \in 1..Len(segs) |-> Strip(segs[k])], LAMBDA t : t # <<>>)

\* qs.get("q", [""])[0].strip()
SearchQueryUnstripped(rq) == QsGet(rq.q)
SearchQuery(rq) == Strip(QsGet(rq.q))

Null == "null"
Numeric == {"25.1", "7"}
\* x if isinstance(x, (int, float)) else None
NumOrNull(x) == IF x \in Numeric THEN x ELSE Null

AllNull == [trailingPE |-> Null, forwardPE |-> Null,
            trailingEps |-> Null, forwardEps |-> Null]
PeEntry(info) == [trailingPE |-> NumOrNull(info.trailingPE),
                  forwardPE |-> NumOrNull(info.forwardPE),
                  trailingEps |-> NumOrNull(info.trailingEps),
                  forwardEps |-> NumOrNull(info.forwardEps)]

\* result[t] = ... in the try block, or in the except block
StoreResultDropsError(res, t, o) ==
    IF o.ok THEN (t :> PeEntry(o.info)) @@ res ELSE res
StoreResult(res, t, o) ==
    (t :> (IF o.ok THEN PeEntry(o.info) ELSE AllNull)) @@ res

\* what yf.Ticker(t).info may do: raise, or return an info mapping
Infos == { [trailingPE |-> "25.1", forwardPE |-> "7",
            trailingEps |-> "7", forwardEps |-> "25.1"],
           [trailingPE |-> "Infinity", forwardPE |-> Null,
            trailingEps |-> "7", forwardEps |-> Null] }
Outcomes == {[ok |-> FALSE, info |-> AllNull]} \cup {[ok |-> TRUE, info |-> i] : i \in Infos}

\* what the upstream search may do: raise, or return quotes
Quote(sym, long, short) ==
    [symbol |-> sym, longname |-> long, shortname |-> short,
     exchDisp |-> "NMS", quoteType |-> "EQUITY"]
SearchOutcomes ==
    { [ok |-> FALSE, quotes |-> <<>>],
      [ok |-> TRUE, quotes |-> <<>>],
      [ok |-> TRUE, quotes |-> <<Quote("AAPL", "", "Apple")>>] }
\* the results list built from data["quotes"]
SearchResults(quotes) ==
    [k \in 1..Len(quotes) |->
        [symbol |-> quotes[k].symbol,
         name |-> IF quotes[k].longname # "" THEN quotes[k].longname
                                             ELSE quotes[k].shortname,
         exchange |-> quotes[k].exchDisp,
         type |-> quotes[k].quoteType]]

Response(status, kind, data) ==
    [status |-> status, body |-> [kind |-> kind, data |-> data]]

\* the requests of the bounded runs
Param(S) == {NoParam} \cup {[given |-> TRUE, text |-> x] : x \in S}
Requests ==
    {[path |-> "/pe", tickers |-> p, q |-> NoParam] :
        p \in Param(SeqUpTo({" ", ",", "AAPL", "BAD"}, MaxRaw))}
    \cup {[path |-> "/search", tickers |-> NoParam, q |-> p] :
        p \in Param(SeqUpTo({" ", "AAPL"}, MaxRaw))}
    \cup {[path |-> pth, tickers |-> NoParam, q |-> NoParam] : pth \in {"/health", "/nope"}}

ProxyInit ==
    /\ SearchIdle
    /\ LocatorIdle
    /\ req \in Requests
    /\ hpc = "do_GET" /\ resp = NoResp /\ intry = FALSE
    /\ tickers = <<>> /\ ki = 0 /\ result = <<>> /\ lookups = <<>>
    /\ searches = 0 /\ statuses = <<>> /\ body = <<>> /\ conn = "open"

\* do_GET, path /pe: _handle_pe up to the loop
HandlePe ==
    /\ hpc = "do_GET" /\ req.path = "/pe"
    /\ tickers' = PeTickers(req)
    /\ IF PeTickers(req) = <<>>
          THEN /\ resp' = Response(400, "error", "missing tickers param")
               /\ hpc' = "set_headers" /\ ki' = ki
          ELSE /\ resp' = resp
               /\ hpc' = "pe_lookup" /\ ki' = 1
    /\ UNCHANGED <<req, intry, result, lookups, searches, statuses, body, conn>>
    /\ UNCHANGED <<searchVars, locatorVars>>

\* one iteration of "for t in tickers"; after the last one the 200
\* response with the result is due
PeLookup ==
    /\ hpc = "pe_lookup"
    /\ \E o \in Outcomes :
          LET new == StoreResult(result, tickers[ki], o) IN
          /\ result' = new
          /\ lookups' = Append(lookups, [t |-> tickers[ki], o |-> o])
          /\ IF ki < Len(tickers)
                THEN ki' = ki + 1 /\ UNCHANGED <<hpc, resp>>
                ELSE /\ ki' = ki
                     /\ resp' = Response(200, "pe", new)
                     /\ hpc' = "set_headers"
    /\ UNCHANGED <<req, intry, tickers, searches, statuses, body, conn>>
    /\ UNCHANGED <<searchVars, locatorVars>>

\* do_GET, path /search: _handle_search up to the try block
HandleSearch ==
    /\ hpc = "do_GET" /\ req.path = "/search"
    /\ IF SearchQuery(req) = <<>>
          THEN /\ resp' = Response(400, "error", "missing q param")
               /\ hpc' = "set_headers" /\ intry' = FALSE
          ELSE /\ resp' = resp
               /\ hpc' = "search_upstream" /\ intry' = TRUE
    /\ UNCHANGED <<req, tickers, ki, result, lookups, searches, statuses, body, conn>>
    /\ UNCHANGED <<searchVars, locatorVars>>

\* urlopen and json.loads in the try block: the results, or the except block
SearchUpstream ==
    /\ hpc = "search_upstream"
    /\ searches' = searches + 1
    /\ \E o \in SearchOutcomes :
          IF o.ok
             THEN /\ resp' = Response(200, "search", SearchResults(o.quotes))
                  /\ intry' = TRUE
             ELSE /\ resp' = Response(500, "error", "upstream")
                  /\ intry' = FALSE
    /\ hpc' = "set_headers"
    /\ UNCHANGED <<req, tickers, ki, result, lookups, statuses, body, conn>>
    /\ UNCHANGED <<searchVars, locatorVars>>

\* do_GET, path /health
Health ==
    /\ hpc = "do_GET" /\ req.path = "/health"
    /\ resp' = Response(200, "status", "ok")
    /\ hpc' = "set_headers"
    /\ UNCHANGED <<req, intry, tickers, ki, result, lookups, searches, statuses, body, conn>>
    /\ UNCHANGED <<searchVars, locatorVars>>

\* do_GET, any other path
NotFound ==
    /\ hpc = "do_GET" /\ req.path \notin {"/pe", "/search", "/health"}
    /\ resp' = Response(404, "error", "not found")
    /\ hpc' = "set_headers"
    /\ UNCHANGED <<req, intry, tickers, ki, result, lookups, searches, statuses, body, conn>>
    /\ UNCHANGED <<searchVars, locatorVars>>

\* _set_headers(status): the status line and headers are written to the
\* socket by end_headers, which raises on a broken connection; in the try
\* block of _handle_search the except block takes over
SetHeaders ==
    /\ hpc = "set_headers"
    /\ statuses' = Append(statuses, resp.status)
    /\ IF conn = "open"
          THEN hpc' = "write" /\ UNCHANGED <<resp, intry>>
          ELSE IF intry
          THEN /\ resp' = Response(500, "error", "upstream")
               /\ intry' = FALSE /\ hpc' = "set_headers"
          ELSE hpc' = "raised" /\ UNCHANGED <<resp, intry>>
    /\ UNCHANGED <<req, tickers, ki, result, lookups, searches, body, conn>>
    /\ UNCHANGED <<searchVars, locatorVars>>

\* self.wfile.write(json.dumps(...).encode()), which raises on a broken
\* connection
WriteBody ==
    /\ hpc = "write"
    /\ IF conn = "open"
          THEN /\ body' = Append(body, resp.body)
               /\ hpc' = "returned" /\ intry' = FALSE /\ resp' = resp
          ELSE IF intry
          THEN /\ resp' = Response(500, "error", "upstream")
               /\ intry' = FALSE /\ hpc' = "set_headers" /\ body' = body
          ELSE hpc' = "raised" /\ UNCHANGED <<resp, intry, body>>
    /\ UNCHANGED <<req, tickers, ki, result, lookups, searches, statuses, conn>>
    /\ UNCHANGED <<searchVars, locatorVars>>

\* the client closes the connection while the request is being handled
ClientDisconnect ==
    /\ hpc \notin {"idle", "returned", "raised"}
    /\ conn = "open"
    /\ conn' = "broken"
    /\ UNCHANGED <<req, hpc, resp, intry, tickers, ki, result, lookups, searches,
                   statuses, body>>
    /\ UNCHANGED <<searchVars, locatorVars>>

\* serve_forever: the next request, on a new connection
ServeNext ==
    /\ hpc \in {"returned", "raised"}
    /\ req' \in Requests
    /\ hpc' = "do_GET" /\ resp' = NoResp /\ intry' = FALSE
    /\ tickers' = <<>> /\ ki' = 0 /\ result' = <<>> /\ lookups' = <<>>
    /\ searches' = 0 /\ statuses' = <<>> /\ body' = <<>> /\ conn' = "open"
    /\ UNCHANGED <<searchVars, locatorVars>>

ProxyNext ==
    \/ HandlePe \/ PeLookup \/ HandleSearch \/ SearchUpstream \/ Health \/ NotFound
    \/ SetHeaders \/ WriteBody \/ ClientDisconnect \/ ServeNext

SpecProxy == ProxyInit /\ [][ProxyNext]_vars

(***************************************************************************)
(* Claims about scripts/yfinance_server.py                                 *)
(***************************************************************************)
\* the non-blank symbols of the tickers parameter
Requested ==
    LET segs == Split(QsGet(req.tickers))
    IN  {Strip(segs[k]) : k \in 1..Len(segs)} \ {<<>>}

\* the outcome of the last upstream lookup of symbol t
LastLookup(t) ==
    LET k == CHOOSE k \in 1..Len(lookups) :
                 lookups[k].t = t /\ \A j \in (k + 1)..Len(lookups) : lookups[j].t # t
    IN  lookups[k].o

Fields == {"trailingPE", "forwardPE", "trailingEps", "forwardEps"}

\* C6: a GET /pe with at least one non-blank symbol is never answered with
\* another status than 200; the mapping written has an entry for every
\* requested symbol; a symbol whose lookup raised has four null fields, and
\* every other symbol has the numbers of its own lookup.
C6_PeErrorsPerTicker ==
    (req.path = "/pe" /\ Requested # {}) =>
        /\ \A k \in 1..Len(statuses) : statuses[k] = 200
        /\ Len(statuses) <= 1
        /\ hpc = "returned" =>
              /\ statuses = <<200>>
              /\ Len(body) = 1 /\ body[1].kind = "pe"
              /\ DOMAIN body[1].data = Requested
              /\ \A t \in Requested : \A f \in Fields :
                    body[1].data[t][f] =
                        IF ~LastLookup(t).ok THEN "null"
                        ELSE IF LastLookup(t).info[f] \in {"25.1", "7"}
                                THEN LastLookup(t).info[f] ELSE "null"

\* a /pe request for two symbols returned 200: the lookup of one raised and
\* its fields are null, the other has its numbers
C6_Witness ==
    /\ req.path = "/pe" /\ hpc = "returned" /\ statuses = <<200>>
    /\ Len(lookups) = 2 /\ Len(body) = 1
    /\ ~lookups[1].o.ok /\ lookups[2].o.ok /\ lookups[1].t # lookups[2].t
    /\ body[1].data[lookups[1].t] = AllNull
    /\ body[1].data[lookups[2].t].trailingPE = "25.1"

\* C7: a GET /search whose q is absent, empty or white space only is
\* answered 400 with an error body, and the upstream search is never called.
C7_SearchMissingQuery ==
    (req.path = "/search" /\ \A k \in 1..Len(QsGet(req.q)) : QsGet(req.q)[k] = " ") =>
        /\ searches = 0
        /\ hpc # "search_upstream"
        /\ \A k \in 1..Len(statuses) : statuses[k] = 400
        /\ Len(statuses) <= 1
        /\ hpc = "returned" =>
              /\ statuses = <<400>>
              /\ Len(body) = 1 /\ body[1].kind = "error"
              /\ body[1].data = "missing q param"

\* a /search request with a q of white space only returned 400
C7_Witness ==
    /\ req.path = "/search" /\ req.q.given /\ req.q.text = <<" ", " ">>
    /\ hpc = "returned" /\ statuses = <<400>> /\ searches = 0
    /\ Len(body) = 1 /\ body[1].kind = "error"

\* C10: when the handler of a GET request is left, by return or by an
\* exception, _set_headers has been called exactly once for the request.
C10_OneStatusPerRequest ==
    hpc \in {"returned", "raised"} => Len(statuses) = 1

====
